---- MODULE Spec2Model ----
(***************************************************************************)
(* Model of santa_map.py: the land-constrained rejection sampler, the      *)
(* festive colour map, the geodesic circle helper, the snowfall frame      *)
(* update and the sequential pipeline of main().                           *)
(*                                                                         *)
(* Coordinates are fixed-point integers in tenths of a degree.  Axes       *)
(* coordinates of the snowfall are fixed-point integers in thousandths.    *)
(***************************************************************************)
EXTENDS Integers, Sequences, FiniteSets

VARIABLES
    land_union,     \* the region passed to _sample_points_in_land: a sequence of boxes
    n,              \* target count passed to _sample_points_in_land
    seed,           \* seed passed to _sample_points_in_land
    sampler,        \* the call of _sample_points_in_land made by main: [pc, rng, pts, tries, ret]
    sampler2,       \* a second call with the same arguments (reproducibility runs)
    glob,           \* state of the module-level generator of `random` (never read by the sampler)
    others,         \* number of draws other code has made from the module-level generator
    warnings,       \* warnings emitted so far through warnings.warn, in order
    pc,             \* position of main()
    exc,            \* exception propagating out of main(), "none" while there is none
    traditions,     \* main: sorted unique tradition labels
    color_map,      \* main: tradition label -> RGBA colour
    land_snow_pts,  \* main: array returned by the sampler
    row,            \* main: index of the next row of the buffer loop
    circle,         \* last call of _geodesic_circle: [lon, lat, radius_km, n_samples, out]
    png_saved,      \* OUT_PNG was written by plt.savefig
    gif_saved,      \* OUT_GIF was written by anim.save
    shown,          \* plt.show() was reached
    snow_x, snow_y, snow_speed,   \* snowfall particle arrays
    frame           \* number of _update calls made so far

samplerVars == <<land_union, n, seed, sampler, sampler2, glob, others>>
mainVars    == <<pc, exc, traditions, color_map, land_snow_pts, row, png_saved, gif_saved, shown>>
snowVars    == <<snow_x, snow_y, snow_speed, frame>>
vars == <<samplerVars, warnings, mainVars, circle, snowVars>>

----------------------------------------------------------------------------
(* Bounds of the model *)

\* largest target count n tried (LAND_SNOWFLAKES is 1400 in the program)
MaxN == 2
\* largest number of draws other code makes from the module-level generator
MaxOther == 2
\* number of snowfall particles modelled (SNOW_PARTICLES is 450 in the program)
NParticles == 2
\* number of animation frames modelled (SNOW_FRAMES is 120 in the program)
MaxFrames == 8

----------------------------------------------------------------------------
(* random.Random(seed): a deterministic generator.  The Mersenne Twister is *)
(* modelled by a full-period congruential generator with 256 states; its    *)
(* period (128 attempts of two draws) exceeds the attempt budget of n <= 2. *)

\* random.Random(seed): the generator state depends on the seed alone
SeedFromGlobal(sd, g) == g
Random(sd, g) == sd % 256

\* one call of rng.random(): the next generator state; the value returned is state/256
random(s) == (5 * s + 3) % 256

\* rng.uniform(a, b) == a + (b - a) * random(), for the generator state s just produced
uniform(a, b, s) == a + ((b - a) * s) \div 256

\* minx, miny, maxx, maxy of the bounding rectangle, in tenths of a degree
bbox == <<-1800, -600, 1800, 850>>

\* land_union.contains(Point(lon, lat)): interior of one of the polygons
contains(region, lon, lat) ==
    \E i \in 1..Len(region) :
        /\ region[i][1] < lon /\ lon < region[i][3]
        /\ region[i][2] < lat /\ lat < region[i][4]

\* max_tries = n * 60
max_triesPlusOne(k) == k * 60 + 1
max_triesTenth(k) == k * 6
max_tries(k) == k * 60

\* the loop condition of _sample_points_in_land
LoopCond(r, k) == Len(r.pts) < k /\ r.tries < max_tries(k)

\* the candidate (lon, lat) drawn by the attempt made from generator state s
Candidate(s) ==
    LET s1 == random(s)
        s2 == random(s1)
    IN  <<uniform(bbox[1], bbox[3], s1), uniform(bbox[2], bbox[4], s2)>>

\* the acceptance test of one attempt
AcceptAll(region, p) == TRUE
Accepts(region, p) == contains(region, p[1], p[2])

\* one iteration of the while loop
Attempt(r, region) ==
    LET p == Candidate(r.rng)
    IN  [r EXCEPT !.tries = r.tries + 1,
                  !.rng = random(random(r.rng)),
                  !.pts = IF Accepts(region, p) THEN Append(r.pts, p) ELSE r.pts]

\* np.array(pts): an empty list gives shape (0,), k pairs give shape (k, 2)
np_array(list) ==
    [shape |-> IF Len(list) = 0 THEN <<0>> ELSE <<Len(list), 2>>, data |-> list]

\* the under-sampling test after the loop
ShortNever(r, k) == FALSE
Short(r, k) == Len(r.pts) < k

\* the warning of line 121
SampleWarning(r, k) == [kind |-> "UserWarning", what |-> "Only sampled", got |-> Len(r.pts), want |-> k]

NoArray == [shape |-> <<>>, data |-> <<>>]
Idle == [pc |-> "idle", rng |-> 0, pts |-> <<>>, tries |-> 0, ret |-> NoArray]

\* lines 107-111: entry of _sample_points_in_land
Enter(r, sd, g) == [pc |-> "loop", rng |-> Random(sd, g), pts |-> <<>>, tries |-> 0, ret |-> NoArray]

\* lines 120-122: exit of _sample_points_in_land
Leave(r) == [r EXCEPT !.pc = "returned", !.ret = np_array(r.pts)]

----------------------------------------------------------------------------
(* Inputs *)

\* land regions: unions of disjoint boxes <<minx, miny, maxx, maxy>>
Ocean     == << >>
World     == << <<-1801, -901, 1801, 901>> >>
North     == << <<-1800, 0, 1800, 850>> >>
Continents == << <<-1500, -550, -400, 700>>, <<0, 100, 1500, 750>> >>
Island    == << <<-430, -660, -300, -530>> >>
Gap       == << <<-1350, -25, 600, 275>> >>
Regions == {Ocean, World, North, Continents, Island, Gap}

\* seeds: the default of the function, the one main passes, and zero
Seeds == {0, 7, 11}

\* one attempt (two calls of random()) as a map on generator states, and the map of
\* 2^j attempts
Step == [s \in 0..255 |-> random(random(s))]
RECURSIVE StepPow(_)
StepPow(j) ==
    IF j = 0 THEN Step
    ELSE LET f == StepPow(j - 1) IN [s \in 0..255 |-> f[f[s]]]

\* the generator state after k < 256 attempts from state s, by the binary digits of k
RECURSIVE AfterBits(_, _, _)
AfterBits(s, k, j) ==
    IF j > 7 THEN s
    ELSE AfterBits(IF (k \div (2 ^ j)) % 2 = 1 THEN StepPow(j)[s] ELSE s, k, j + 1)
AfterAttempts(s, k) == AfterBits(s, k, 0)

\* the candidates of the first k attempts of a generator in state s, in draw order
DrawsFrom(s, k) == [i \in 1..k |-> Candidate(AfterAttempts(s, i - 1))]

\* for each seed, the candidates of the first 60 * MaxN attempts of random.Random(seed)
DrawTable == [sd \in Seeds |-> DrawsFrom(sd % 256, 60 * MaxN)]

\* the candidates among the first k attempts that the region contains, in draw order
Hits(sd, region, k) ==
    LET InRegion(p) == contains(region, p[1], p[2])
    IN  SelectSeq(SubSeq(DrawTable[sd], 1, k), InRegion)

\* area of the part of a region inside the bounding rectangle (the boxes are disjoint)
Max2(a, b) == IF a > b THEN a ELSE b
Min2(a, b) == IF a < b THEN a ELSE b
RECURSIVE LandArea(_)
LandArea(region) ==
    IF region = << >> THEN 0
    ELSE LET b == Head(region)
             w == Min2(b[3], bbox[3]) - Max2(b[1], bbox[1])
             h == Min2(b[4], bbox[4]) - Max2(b[2], bbox[2])
         IN  Max2(w, 0) * Max2(h, 0) + LandArea(Tail(region))
BoxArea == (bbox[3] - bbox[1]) * (bbox[4] - bbox[2])

\* the region covers a fraction f >= 0.1 of the bounding rectangle
CoversTenth(region) == 10 * LandArea(region) >= BoxArea

----------------------------------------------------------------------------
(* main(): the location table, the colour map and the geodesic buffers *)

\* rows of the location table (lat and lon in tenths of a degree, names in ASCII)
rows == <<
    [name |-> "Santa Claus (Rovaniemi)",  tradition |-> "Official Santa", lat |-> 665, lon |-> 257],
    [name |-> "Santa Claus (North Pole)", tradition |-> "Official Santa", lat |-> 648, lon |-> -1473],
    [name |-> "Pere Noel",                tradition |-> "Western Europe", lat |-> 486, lon |-> 78],
    [name |-> "Ded Moroz (Father Frost)", tradition |-> "Slavic",         lat |-> 608, lon |-> 463],
    [name |-> "Papai Noel",               tradition |-> "Americas",       lat |-> -229, lon |-> -432],
    [name |-> "Hoteiosho",                tradition |-> "East Asia",      lat |-> 357, lon |-> 1397],
    [name |-> "Surfing Santa", tradition |-> "Southern Hemisphere (Summer)", lat |-> -339, lon |-> 1512] >>

\* the order of str comparison on the labels that occur ('S','l' < 'S','o'; a prefix sorts first)
LabelOrder == << "Americas", "East Asia", "Official Santa", "Slavic",
                 "Southern Hemisphere", "Southern Hemisphere (Summer)", "Western Europe" >>

\* sorted(df["tradition"].unique().tolist())
SortedUnique(table) ==
    LET present(t) == \E i \in 1..Len(table) : table[i].tradition = t
    IN  SelectSeq(LabelOrder, present)

\* the palette of _make_festive_color_map, RGBA in hundredths
palette == << <<80, 15, 20, 100>>, <<10, 50, 28, 100>>, <<96, 74, 20, 100>>, <<35, 70, 86, 100>>,
              <<55, 35, 78, 100>>, <<95, 48, 18, 100>>, <<20, 20, 25, 100>>, <<90, 30, 55, 100>> >>

\* the 'summer' colour (0.05, 0.75, 0.65, 1.0)
summer == <<5, 75, 65, 100>>

\* _make_festive_color_map(traditions); a later index of a repeated label overwrites an earlier one
_make_festive_color_map(list) ==
    LET keys == {list[i] : i \in 1..Len(list)}
        last(t) == CHOOSE i \in 1..Len(list) :
                       list[i] = t /\ \A j \in 1..Len(list) : list[j] = t => j <= i
        cmap == [t \in keys |-> palette[((last(t) - 1) % Len(palette)) + 1]]
    IN  IF "Southern Hemisphere" \in keys
        THEN [cmap EXCEPT !["Southern Hemisphere"] = summer]
        ELSE cmap

\* BUFFER_KM
BUFFER_KM == 350

\* Geodesic().circle(lon, lat, radius, n_samples): the library solves the direct geodesic
\* problem for every real distance and validates nothing; the points are abstracted to
\* their count and their distance from the centre, in metres
_geodesic_circle(lon, lat, radius_km, n_samples) ==
    [status |-> "ok", shape |-> <<n_samples, 2>>, distance_m |-> radius_km * 1000]

NoCircle == [lon |-> 0, lat |-> 0, radius_km |-> 0, n_samples |-> 0,
             out |-> [status |-> "none", shape |-> <<>>, distance_m |-> 0]]

\* land_snow_pts[:, 0] and land_snow_pts[:, 1]: two indices need an array of two dimensions
CanIndexColumns(a) == Len(a.shape) >= 2

\* what anim.save may do: finish, or raise one of these
Raised == { [type |-> "ImportError", msg |-> "No module named PIL"],
            [type |-> "OSError", msg |-> "No space left on device"],
            [type |-> "ValueError", msg |-> "unknown file extension"],
            [type |-> "KeyboardInterrupt", msg |-> ""] }

\* the classes `except Exception` catches (KeyboardInterrupt derives from BaseException only)
CaughtImportOnly(type) == type = "ImportError"
Caught(type) == type \in {"ImportError", "OSError", "ValueError"}

\* the warning of lines 405-408
GifWarning(e) == [kind |-> "UserWarning", what |-> "Failed to save GIF", got |-> e.type, want |-> e.msg]

----------------------------------------------------------------------------
(* Spec: main() from the table to plt.show() *)

NoSnow == << >>

Init ==
    /\ land_union \in Regions
    /\ n \in 0..MaxN
    /\ seed \in Seeds
    /\ sampler = Idle /\ sampler2 = Idle
    /\ glob = 0 /\ others = 0
    /\ warnings = << >>
    /\ pc = "colors" /\ exc = "none"
    /\ traditions = << >> /\ color_map = << >>
    /\ land_snow_pts = NoArray
    /\ row = 0
    /\ circle = NoCircle
    /\ png_saved = FALSE /\ gif_saved = FALSE /\ shown = FALSE
    /\ snow_x = NoSnow /\ snow_y = NoSnow /\ snow_speed = NoSnow /\ frame = 0

\* lines 197-200
BuildColors ==
    /\ pc = "colors"
    /\ traditions' = SortedUnique(rows)
    /\ color_map' = _make_festive_color_map(SortedUnique(rows))
    /\ pc' = "sample"
    /\ UNCHANGED <<samplerVars, warnings, exc, land_snow_pts, row, png_saved, gif_saved, shown,
                   circle, snowVars>>

\* line 204 and lines 107-111: main calls the sampler
CallSampler ==
    /\ pc = "sample" /\ sampler.pc = "idle"
    /\ sampler' = Enter(sampler, seed, glob)
    /\ pc' = "sampling"
    /\ UNCHANGED <<land_union, n, seed, sampler2, glob, others, warnings, exc, traditions,
                   color_map, land_snow_pts, row, png_saved, gif_saved, shown, circle, snowVars>>

\* lines 113-118: one iteration of the loop
SamplerAttempt ==
    /\ pc = "sampling" /\ sampler.pc = "loop"
    /\ LoopCond(sampler, n)
    /\ sampler' = Attempt(sampler, land_union)
    /\ UNCHANGED <<land_union, n, seed, sampler2, glob, others, warnings, mainVars, circle, snowVars>>

\* lines 120-122 and the assignment of line 204
SamplerReturn ==
    /\ pc = "sampling" /\ sampler.pc = "loop"
    /\ ~LoopCond(sampler, n)
    /\ warnings' = IF Short(sampler, n) THEN Append(warnings, SampleWarning(sampler, n)) ELSE warnings
    /\ sampler' = Leave(sampler)
    /\ land_snow_pts' = np_array(sampler.pts)
    /\ pc' = "scatter"
    /\ UNCHANGED <<land_union, n, seed, sampler2, glob, others, exc, traditions, color_map, row,
                   png_saved, gif_saved, shown, circle, snowVars>>

\* lines 206-248: figure, background and the two scatters of the land snowflakes
Scatter ==
    /\ pc = "scatter"
    /\ IF CanIndexColumns(land_snow_pts)
       THEN pc' = "buffers" /\ row' = 1 /\ exc' = exc
       ELSE pc' = "crashed" /\ exc' = "IndexError" /\ row' = row
    /\ UNCHANGED <<samplerVars, warnings, traditions, color_map, land_snow_pts, png_saved,
                   gif_saved, shown, circle, snowVars>>

\* lines 251-261: one iteration of the buffer loop
Buffer ==
    /\ pc = "buffers" /\ row <= Len(rows)
    /\ rows[row].tradition \in DOMAIN color_map
    /\ circle' = [lon |-> rows[row].lon, lat |-> rows[row].lat, radius_km |-> BUFFER_KM,
                  n_samples |-> 120,
                  out |-> _geodesic_circle(rows[row].lon, rows[row].lat, BUFFER_KM, 120)]
    /\ row' = row + 1
    /\ UNCHANGED <<samplerVars, warnings, pc, exc, traditions, color_map, land_snow_pts,
                   png_saved, gif_saved, shown, snowVars>>

\* lines 263-363: markers, labels, title, legend, layout
Decorate ==
    /\ pc = "buffers" /\ row > Len(rows)
    /\ pc' = "savepng"
    /\ UNCHANGED <<samplerVars, warnings, exc, traditions, color_map, land_snow_pts, row,
                   png_saved, gif_saved, shown, circle, snowVars>>

\* lines 366-367
SavePng ==
    /\ pc = "savepng"
    /\ png_saved' = TRUE
    /\ pc' = "animsave"
    /\ UNCHANGED <<samplerVars, warnings, exc, traditions, color_map, land_snow_pts, row,
                   gif_saved, shown, circle, snowVars>>

\* lines 372-403: the animation is built and saved
AnimSaveOk ==
    /\ pc = "animsave"
    /\ gif_saved' = TRUE
    /\ pc' = "show"
    /\ UNCHANGED <<samplerVars, warnings, exc, traditions, color_map, land_snow_pts, row,
                   png_saved, shown, circle, snowVars>>

\* lines 401-408: anim.save raises
AnimSaveRaises ==
    /\ pc = "animsave"
    /\ \E e \in Raised :
        IF Caught(e.type)
        THEN /\ warnings' = Append(warnings, GifWarning(e))
             /\ pc' = "show" /\ exc' = exc
        ELSE /\ warnings' = warnings
             /\ pc' = "crashed" /\ exc' = e.type
    /\ UNCHANGED <<samplerVars, traditions, color_map, land_snow_pts, row, png_saved, gif_saved,
                   shown, circle, snowVars>>

\* line 410
Show ==
    /\ pc = "show"
    /\ shown' = TRUE
    /\ pc' = "done"
    /\ UNCHANGED <<samplerVars, warnings, exc, traditions, color_map, land_snow_pts, row,
                   png_saved, gif_saved, circle, snowVars>>

Next ==
    \/ BuildColors \/ CallSampler \/ SamplerAttempt \/ SamplerReturn \/ Scatter
    \/ Buffer \/ Decorate \/ SavePng \/ AnimSaveOk \/ AnimSaveRaises \/ Show

Spec == Init /\ [][Next]_vars

----------------------------------------------------------------------------
(* Properties of the sampler and of main(), checked under Spec *)

InBox(p) == bbox[1] <= p[1] /\ p[1] <= bbox[3] /\ bbox[2] <= p[2] /\ p[2] <= bbox[4]
Returned == sampler.pc = "returned"
IsSampleWarning(w) == w.what = "Only sampled"
IsGifWarning(w) == w.what = "Failed to save GIF"
SampleWarnings == SelectSeq(warnings, IsSampleWarning)
GifWarnings == SelectSeq(warnings, IsGifWarning)

\* C1: for every n >= 0 and every region the sampler makes at most 60*n attempts, every
\* step of its loop is one more attempt made while fewer than n points are accepted (so
\* the loop ends, and ends at the attempt that accepted the n-th point), and neither the
\* list nor the returned array ever holds more than n points.
C1_AttemptBudget ==
    /\ [](/\ sampler.tries <= 60 * n
          /\ Len(sampler.pts) <= n
          /\ Len(sampler.ret.data) <= n
          /\ (n > 0 /\ Len(sampler.pts) = n) =>
                 (sampler.tries >= 1 /\ sampler.pts[n] = DrawTable[seed][sampler.tries]))
    /\ [][sampler.pc = "loop" =>
            \/ /\ sampler'.pc = "loop"
               /\ Len(sampler.pts) < n
               /\ sampler'.tries = sampler.tries + 1
            \/ /\ sampler'.pc = "returned"
               /\ sampler'.tries = sampler.tries
               /\ (Len(sampler.pts) = n \/ sampler.tries = 60 * n)]_vars

\* C1 witness: the budget of a call with n = 2 is used up (120 attempts) without 2 points
C1_BudgetExhausted ==
    Returned /\ n = 2 /\ sampler.tries = 60 * n /\ Len(sampler.ret.data) < n

\* C2: when the sampler has returned, nothing was raised, the array holds exactly the
\* points accepted so far, and the under-sampling warning was emitted (once, naming the
\* two counts) exactly when fewer than n points are returned.
C2_WarnIffShort ==
    /\ pc \in {"sampling", "scatter"} => exc = "none"
    /\ ~Returned => SampleWarnings = << >>
    /\ Returned =>
         /\ sampler.ret.data = sampler.pts
         /\ Len(SampleWarnings) = (IF Len(sampler.ret.data) < n THEN 1 ELSE 0)
         /\ \A i \in 1..Len(SampleWarnings) :
                SampleWarnings[i].got = Len(sampler.ret.data) /\ SampleWarnings[i].want = n

\* C2 witness: budget exhausted with a partial, non-empty set, and the warning emitted
C2_PartialWarned ==
    /\ Returned /\ sampler.tries = 60 * n
    /\ Len(sampler.ret.data) > 0 /\ Len(sampler.ret.data) < n
    /\ Len(SampleWarnings) = 1

\* C4: at every point of a call the accepted list is exactly the candidates drawn so far
\* that the region contains, in the order they were drawn; each of them lies in the
\* region and in the bounding rectangle; the returned array is that list.
C4_OnlyLandInOrder ==
    /\ sampler.pc # "idle" => sampler.pts = Hits(seed, land_union, sampler.tries)
    /\ \A i \in 1..Len(sampler.pts) :
           contains(land_union, sampler.pts[i][1], sampler.pts[i][2]) /\ InBox(sampler.pts[i])
    /\ Returned => sampler.ret.data = sampler.pts

\* C4 witness: a call returned two points after rejecting at least one candidate
C4_AcceptedAndRejected ==
    Returned /\ Len(sampler.ret.data) = 2 /\ sampler.tries > 2 /\ land_union # World

\* C5 (as claimed): whenever the sampler returned fewer points than the target, main does
\* not stop before the static image is saved.
C5_ShortIsNonFatal ==
    (Returned /\ Len(sampler.ret.data) < n /\ pc = "crashed") => png_saved

\* the classes that derive from Exception
IsException(type) == type # "KeyboardInterrupt"

\* C6: the animation is attempted only after the static image is saved; an Exception
\* raised by anim.save leaves main at plt.show() with a warning carrying its type and
\* message; main then ends normally, shown, and the static image stays saved.
C6_GifFailureIsWarning ==
    /\ pc \in {"animsave", "show", "done"} => png_saved
    /\ gif_saved => png_saved
    /\ (pc = "crashed" /\ png_saved) => ~IsException(exc)
    /\ pc \in {"show", "done"} =>
         /\ exc = "none"
         /\ \/ gif_saved /\ GifWarnings = << >>
            \/ /\ ~gif_saved /\ Len(GifWarnings) = 1
               /\ \E e \in Raised : IsException(e.type) /\ warnings[Len(warnings)] = GifWarning(e)
    /\ pc = "done" => shown
    /\ pc = "show" => ~shown

\* C6 witness: main ended normally after anim.save raised OSError
C6_EndedAfterGifFailure ==
    /\ pc = "done" /\ shown /\ png_saved /\ ~gif_saved /\ exc = "none"
    /\ \E i \in 1..Len(warnings) : IsGifWarning(warnings[i]) /\ warnings[i].got = "OSError"

\* C8 (as claimed): a call on a region covering at least a tenth of the bounding
\* rectangle returns exactly n points and emits no under-sampling warning.
C8_TenthAlwaysReaches ==
    (Returned /\ CoversTenth(land_union)) =>
        (Len(sampler.ret.data) = n /\ SampleWarnings = << >>)

\* C8 (amended): a call on a region covering at least a tenth of the bounding rectangle
\* returns exactly n points without warning exactly when at least n of the first 60*n
\* candidates of the seeded generator lie in the region.
C8_ReachesIffEnoughHits ==
    (Returned /\ CoversTenth(land_union)) =>
        ((Len(sampler.ret.data) = n /\ SampleWarnings = << >>)
            <=> Len(Hits(seed, land_union, 60 * n)) >= n)

\* C8 witness: a region covering a tenth, n points reached after some rejections
C8_ReachedWithRejections ==
    /\ Returned /\ CoversTenth(land_union) /\ n >= 1
    /\ Len(sampler.ret.data) = n /\ sampler.tries > n /\ SampleWarnings = << >>

\* the tradition of the row named "Surfing Santa"
SurfingTradition ==
    rows[CHOOSE i \in 1..Len(rows) : rows[i].name = "Surfing Santa"].tradition

\* C9 (as claimed): in the map main builds, the tradition of 'Surfing Santa' has the
\* summer colour, and every other tradition at index i has palette[i mod 8].
C9_SurfingSantaIsSummer ==
    pc # "colors" =>
        /\ color_map[SurfingTradition] = summer
        /\ \A i \in 1..Len(traditions) :
               traditions[i] # SurfingTradition =>
                   color_map[traditions[i]] = palette[((i - 1) % 8) + 1]

----------------------------------------------------------------------------
(* SpecDet: two calls of the sampler with the same arguments, while other code draws *)
(* from the module-level generator of `random`                                       *)

\* states the module-level generator may be in when the program starts
GlobStates == {0, 99}

InitDet ==
    /\ land_union \in Regions
    /\ n \in 0..MaxN
    /\ seed \in Seeds
    /\ sampler = Idle /\ sampler2 = Idle
    /\ glob \in GlobStates /\ others = 0
    /\ warnings = << >>
    /\ pc = "reproduce" /\ exc = "none"
    /\ traditions = << >> /\ color_map = << >>
    /\ land_snow_pts = NoArray
    /\ row = 0
    /\ circle = NoCircle
    /\ png_saved = FALSE /\ gif_saved = FALSE /\ shown = FALSE
    /\ snow_x = NoSnow /\ snow_y = NoSnow /\ snow_speed = NoSnow /\ frame = 0

\* lines 107-111, first call
FirstCall ==
    /\ pc = "reproduce" /\ sampler.pc = "idle"
    /\ sampler' = Enter(sampler, seed, glob)
    /\ UNCHANGED <<land_union, n, seed, sampler2, glob, others, warnings, mainVars, circle, snowVars>>

\* lines 113-118, first call
FirstAttempt ==
    /\ pc = "reproduce" /\ sampler.pc = "loop"
    /\ LoopCond(sampler, n)
    /\ sampler' = Attempt(sampler, land_union)
    /\ UNCHANGED <<land_union, n, seed, sampler2, glob, others, warnings, mainVars, circle, snowVars>>

\* lines 120-122, first call
FirstReturn ==
    /\ pc = "reproduce" /\ sampler.pc = "loop"
    /\ ~LoopCond(sampler, n)
    /\ warnings' = IF Short(sampler, n) THEN Append(warnings, SampleWarning(sampler, n)) ELSE warnings
    /\ sampler' = Leave(sampler)
    /\ UNCHANGED <<land_union, n, seed, sampler2, glob, others, mainVars, circle, snowVars>>

\* lines 107-111, second call, made after the first has returned
SecondCall ==
    /\ pc = "reproduce" /\ sampler.pc = "returned" /\ sampler2.pc = "idle"
    /\ sampler2' = Enter(sampler2, seed, glob)
    /\ UNCHANGED <<land_union, n, seed, sampler, glob, others, warnings, mainVars, circle, snowVars>>

\* lines 113-118, second call
SecondAttempt ==
    /\ pc = "reproduce" /\ sampler2.pc = "loop"
    /\ LoopCond(sampler2, n)
    /\ sampler2' = Attempt(sampler2, land_union)
    /\ UNCHANGED <<land_union, n, seed, sampler, glob, others, warnings, mainVars, circle, snowVars>>

\* lines 120-122, second call
SecondReturn ==
    /\ pc = "reproduce" /\ sampler2.pc = "loop"
    /\ ~LoopCond(sampler2, n)
    /\ warnings' = IF Short(sampler2, n) THEN Append(warnings, SampleWarning(sampler2, n)) ELSE warnings
    /\ sampler2' = Leave(sampler2)
    /\ UNCHANGED <<land_union, n, seed, sampler, glob, others, mainVars, circle, snowVars>>

\* any other code calls random.random() on the module-level generator
OtherDraw ==
    /\ pc = "reproduce" /\ others < MaxOther
    /\ glob' = random(glob)
    /\ others' = others + 1
    /\ UNCHANGED <<land_union, n, seed, sampler, sampler2, warnings, mainVars, circle, snowVars>>

NextDet ==
    \/ FirstCall \/ FirstAttempt \/ FirstReturn
    \/ SecondCall \/ SecondAttempt \/ SecondReturn \/ OtherDraw

SpecDet == InitDet /\ [][NextDet]_vars

\* C3: two calls with the same seed, region and n return the same points in the same
\* order after the same number of attempts, whatever other code drew from the
\* module-level generator before, between or during the calls; and no step of the
\* sampler changes the module-level generator.
C3_SameSeedSamePoints ==
    /\ [](sampler2.pc = "returned" =>
            /\ sampler2.ret = sampler.ret
            /\ sampler2.tries = sampler.tries)
    /\ [][(sampler' # sampler \/ sampler2' # sampler2) => glob' = glob]_vars

\* C3 witness: both calls returned two points after rejections, and other code drew from
\* the module-level generator meanwhile
C3_TwoRunsWithOtherDraws ==
    /\ sampler.pc = "returned" /\ sampler2.pc = "returned"
    /\ others = MaxOther
    /\ Len(sampler2.ret.data) = 2 /\ sampler2.tries > 2

----------------------------------------------------------------------------
(* SpecCircle: _geodesic_circle as a function of its arguments *)

\* radii tried, in km
Radii == {-350, -1, 0, 1, 350}

InitCircle ==
    /\ land_union = Ocean /\ n = 0 /\ seed = 7
    /\ sampler = Idle /\ sampler2 = Idle
    /\ glob = 0 /\ others = 0
    /\ warnings = << >>
    /\ pc = "circle" /\ exc = "none"
    /\ traditions = << >> /\ color_map = << >>
    /\ land_snow_pts = NoArray
    /\ row = 0
    /\ \E i \in 1..Len(rows), r \in Radii, k \in {3, 120} :
           circle = [lon |-> rows[i].lon, lat |-> rows[i].lat, radius_km |-> r,
                     n_samples |-> k, out |-> NoCircle.out]
    /\ png_saved = FALSE /\ gif_saved = FALSE /\ shown = FALSE
    /\ snow_x = NoSnow /\ snow_y = NoSnow /\ snow_speed = NoSnow /\ frame = 0

\* lines 50-54
CallCircle ==
    /\ pc = "circle" /\ circle.out.status = "none"
    /\ circle' = [circle EXCEPT !.out =
                    _geodesic_circle(circle.lon, circle.lat, circle.radius_km, circle.n_samples)]
    /\ UNCHANGED <<samplerVars, warnings, mainVars, snowVars>>

NextCircle == CallCircle

SpecCircle == InitCircle /\ [][NextCircle]_vars

\* C7 (as claimed): a call with a negative radius reports an error instead of returning
\* points, and a call with a radius >= 0 returns points.
C7_NegativeRadiusRejected ==
    circle.out.status # "none" =>
        IF circle.radius_km < 0
        THEN circle.out.status = "error"
        ELSE circle.out.status = "ok"

----------------------------------------------------------------------------
(* SpecSnow: the frames of the snowfall animation, from the arrays of lines 373-375 *)

Particles == 1..NParticles

\* np.clip(v, lo, hi)
clip(v, lo, hi) == IF v < lo THEN lo ELSE IF v > hi THEN hi ELSE v

\* reset = snow_y < -0.05
ResetLate(y) == y < -60
ResetBelow(y) == y < -50

\* values drawn by rng.uniform(0.0, 1.0) and by rng.normal(0.0, 0.0015) (unbounded)
UniformDraws == {0, 999}
NormalDraws == {-600, 0, 600}

\* values drawn by rng.uniform(0.002, 0.010)
SpeedDraws == {7, 9}

InitSnow ==
    /\ land_union = Ocean /\ n = 0 /\ seed = 7
    /\ sampler = Idle /\ sampler2 = Idle
    /\ glob = 0 /\ others = 0
    /\ warnings = << >>
    /\ pc = "animate" /\ exc = "none"
    /\ traditions = << >> /\ color_map = << >>
    /\ land_snow_pts = NoArray
    /\ row = 0
    /\ circle = NoCircle
    /\ png_saved = TRUE /\ gif_saved = FALSE /\ shown = FALSE
    /\ snow_x \in [Particles -> UniformDraws]
    /\ snow_y \in [Particles -> {0, 500}]
    /\ snow_speed \in [Particles -> SpeedDraws]
    /\ frame = 0

\* lines 389-397: one call of _update
Update ==
    /\ pc = "animate" /\ frame < MaxFrames
    /\ LET fallen == [i \in Particles |-> snow_y[i] - snow_speed[i]]
           reset  == [i \in Particles |-> ResetBelow(fallen[i])]
       IN  /\ snow_y' = [i \in Particles |-> IF reset[i] THEN 1050 ELSE fallen[i]]
           /\ \E fresh \in [Particles -> UniformDraws] :
                \* only reset.sum() values are drawn: none for a particle that is not reset
                /\ \A i \in Particles : ~reset[i] => fresh[i] = 0
                /\ \E drift \in [Particles -> NormalDraws] :
                     snow_x' = [i \in Particles |->
                                  clip((IF reset[i] THEN fresh[i] ELSE snow_x[i]) + drift[i],
                                       -20, 1020)]
    /\ frame' = frame + 1
    /\ UNCHANGED <<samplerVars, warnings, mainVars, circle, snow_speed>>

NextSnow == Update

SpecSnow == InitSnow /\ [][NextSnow]_vars

\* every particle array has NParticles entries, y in [-0.05, 1.05] and x in [-0.02, 1.02]
InBand ==
    /\ DOMAIN snow_x = Particles /\ DOMAIN snow_y = Particles /\ DOMAIN snow_speed = Particles
    /\ \A i \in Particles :
          /\ -50 <= snow_y[i] /\ snow_y[i] <= 1050
          /\ -20 <= snow_x[i] /\ snow_x[i] <= 1020

\* C10: before and after every frame every particle has y in [-0.05, 1.05] and x in
\* [-0.02, 1.02] (x in [0, 1] before the first frame), there are as many particles as at
\* the start, a particle whose y falls below -0.05 in a frame has y = 1.05 after that
\* frame, and no frame changes a speed.
C10_SnowStaysInBand ==
    [][/\ InBand /\ InBand'
       /\ frame = 0 => \A i \in Particles : 0 <= snow_x[i] /\ snow_x[i] <= 1000
       /\ snow_speed' = snow_speed
       /\ \A i \in Particles :
             (snow_y[i] - snow_speed[i] < -50) => snow_y'[i] = 1050]_vars

\* C10 witness: after some frames one particle was just reset to the top and one sits
\* on the clipped left edge
C10_ResetAndClipped ==
    /\ frame > 0
    /\ \E i \in Particles : snow_y[i] = 1050
    /\ \E i \in Particles : snow_x[i] = -20

====
